---- MODULE Spec2Model ----
(***************************************************************************)
(* Model of the QPerform warning and recommendation engine                 *)
(* (warningEngine.js, held in src/unnamed/part_001, and the warning and    *)
(* recommendation endpoints of src/server.js).                             *)
(*                                                                         *)
(* The engine keeps no state of its own: the state is the content of the   *)
(* tables of the consolidations schema and the database's CURRENT_DATE.    *)
(* A table is a bag (multiset) of rows; the recommendations table, whose   *)
(* rows are addressed by recommendation_id, is the list of its rows in the *)
(* order of their ids.  The columns kept are the ones the                  *)
(* engine's queries read; SERIAL ids and the free-text columns (subtype,   *)
(* notes, client, category, issued_by, warning_level) are written but      *)
(* never read by the engine and are left out.  Dates are day numbers.      *)
(* A query result is a bag as well: ORDER BY only orders the rows, and the *)
(* evaluators only count them.                                             *)
(***************************************************************************)
EXTENDS Integers, Sequences, FiniteSets, Bags, TLC

VARIABLES
    warnings,            \* consolidations.warnings
    action_log,          \* consolidations.action_log
    leadership_reports,  \* consolidations.leadership_reports
    recommendations,     \* consolidations.recommendations, by recommendation_id
    today,               \* CURRENT_DATE / Date.now(), as a day number
    callers,             \* the callers in the middle of a generate-and-save sequence
    resp                 \* what the last operation returned to its caller

vars == <<warnings, action_log, leadership_reports, recommendations, today, callers, resp>>

\* the tables
tables == <<warnings, action_log, leadership_reports, recommendations>>

---------------------------------------------------------------------------
(* Values *)

\* SQL NULL / JavaScript null in a date column
NULL == -1

\* SQL NULL in a text column
NullText == "NULL"

Agents == {"a1", "a2"}
Leaders == {"l1", "l2"}
Metrics == {"QA", "Production"}
WarningTypes == {"Coaching", "Verbal", "Written"}
Statuses == {"Active", "Expired"}

\* WARNING_EXPIRATION, in days
VerbalDays == 90
WrittenDays == 180

WARNING_EXPIRATION(warningType) ==
    CASE warningType = "Verbal" -> VerbalDays
      [] warningType = "Written" -> WrittenDays
      [] OTHER -> NULL

\* the largest number of rows of the warnings table on one day
MaxWarnings == 5

\* the week a recommendation is generated for
GenWeeks == {[weekStartDate |-> 10, weekEndDate |-> 16]}

\* the rows a warnings table may hold before the engine is first used: the
\* table predates the engine, whose queries filter on status and expiration
ExpDates == {NULL, 2}
LegacyWarnings ==
    [agent_email : Agents, metric_type : Metrics, warning_type : WarningTypes,
     status : Statuses, issue_date : {0}, expiration_date : ExpDates]
MaxLegacy == 2

\* the days on which that table is read
FirstDay == 1
LastDay == 3

\* the weekly performance rows a period is made of
WeekStarts == {10, 17}
FlagPairs == {<<"Normal", "Normal">>, <<"Low", "Normal">>, <<"Normal", "Critical">>}
DataWeeks ==
    {[start_date |-> s, flag_qa |-> f[1], flag_prod |-> f[2]] :
        s \in WeekStarts, f \in FlagPairs}
MaxWeeks == 4

\* the days on which a warning was issued or an action logged
ActionDates == {2, 3, 17, 18}

\* a field the request does not carry (undefined, bound as NULL in a query,
\* where it equals the value of no row)
Undefined == "undefined"

\* the leader an agent is assigned to
LeaderOf(agentEmail) == IF agentEmail = "a1" THEN "l1" ELSE "l2"

NoResp == [op |-> "none"]

---------------------------------------------------------------------------
(* Bags of rows *)

\* the rows of B that satisfy Keep, with their multiplicities (a WHERE clause)
Where(B, Keep(_)) == [r \in {x \in DOMAIN B : Keep(x)} |-> B[r]]

\* the number of rows of B
Rows(B) == BagCardinality(B)

\* faulty variant: the new row takes the place of the agent's earlier rows
InsertSuperseding(B, r) ==
    LET Keep(w) == w.agent_email # r.agent_email IN Where(B, Keep) (+) SetToBag({r})

\* B with one more copy of row r (an INSERT)
Insert(B, r) == B (+) SetToBag({r})

\* every bag of at most n rows taken from U
RECURSIVE BagsUpTo(_, _)
BagsUpTo(U, n) ==
    IF n = 0 THEN {EmptyBag}
    ELSE LET smaller == BagsUpTo(U, n - 1)
         IN smaller \cup {Insert(b, r) : b \in smaller, r \in U}

\* every list of at most n elements of U
ListsUpTo(U, n) == UNION {[1..k -> U] : k \in 0..n}

\* the empty table and the tables of one row of U
OneRowOrNone(U) == {EmptyBag} \cup {SetToBag({r}) : r \in U}

---------------------------------------------------------------------------
(* warningEngine.js *)

\* expiration_date IS NULL OR expiration_date >= CURRENT_DATE
\* (UnexpiredStrict: the faulty variant with > for >=)
UnexpiredStrict(expires, now) == expires = NULL \/ expires > now
\* (UnexpiredReversed: the faulty variant with <= for >=)
UnexpiredReversed(expires, now) == expires = NULL \/ expires <= now
Unexpired(expires, now) == expires = NULL \/ expires >= now

\* faulty variant: the metric condition is missing
getActiveWarningsAnyMetric(W, now, agentEmail, metricType) ==
    LET Keep(w) == /\ w.agent_email = agentEmail
                   /\ w.status = "Active"
                   /\ Unexpired(w.expiration_date, now)
    IN Where(W, Keep)

\* faulty variant: the status condition is missing
getActiveWarningsAnyStatus(W, now, agentEmail, metricType) ==
    LET Keep(w) == /\ w.agent_email = agentEmail
                   /\ w.metric_type = metricType
                   /\ Unexpired(w.expiration_date, now)
    IN Where(W, Keep)

getActiveWarnings(W, now, agentEmail, metricType) ==
    LET Keep(w) == /\ w.agent_email = agentEmail
                   /\ w.metric_type = metricType
                   /\ w.status = "Active"
                   /\ Unexpired(w.expiration_date, now)
    IN Where(W, Keep)

\* faulty variant: Coaching rows are counted with every kind
countWarningsWithCoaching(ws, warningType) ==
    LET Keep(w) == w.warning_type = warningType \/ w.warning_type = "Coaching"
    IN Rows(Where(ws, Keep))

countWarningsByType(ws, warningType) ==
    LET Keep(w) == w.warning_type = warningType
    IN Rows(Where(ws, Keep))

NotApplies == [applies |-> FALSE]

\* faulty variant: <= 1 for === 1
evaluateCaseAAtMostOne(ws) ==
    IF countWarningsByType(ws, "Verbal") <= 1
    THEN [case |-> "A", applies |-> TRUE,
          recommendation |-> "Second Verbal Warning + Coaching/Reinforcement",
          priority |-> "Medium",
          details |-> "Agent has 1 verbal warning and is underperforming again. Issue second verbal warning and provide coaching."]
    ELSE NotApplies

\* faulty variant: > 1 for === 1
evaluateCaseAOverOne(ws) ==
    IF countWarningsByType(ws, "Verbal") > 1
    THEN [case |-> "A", applies |-> TRUE,
          recommendation |-> "Second Verbal Warning + Coaching/Reinforcement",
          priority |-> "Medium",
          details |-> "Agent has 1 verbal warning and is underperforming again. Issue second verbal warning and provide coaching."]
    ELSE NotApplies

evaluateCaseA(ws) ==
    IF countWarningsByType(ws, "Verbal") = 1
    THEN [case |-> "A", applies |-> TRUE,
          recommendation |-> "Second Verbal Warning + Coaching/Reinforcement",
          priority |-> "Medium",
          details |-> "Agent has 1 verbal warning and is underperforming again. Issue second verbal warning and provide coaching."]
    ELSE NotApplies

\* faulty variant: === 2 for >= 2
evaluateCaseBExactlyTwo(ws) ==
    IF countWarningsByType(ws, "Verbal") = 2
    THEN [case |-> "B", applies |-> TRUE,
          recommendation |-> "Written Warning - Substandard Work",
          priority |-> "High",
          details |-> "Agent has 2 verbal warnings and is still underperforming. Issue formal written warning for substandard work."]
    ELSE NotApplies

evaluateCaseB(ws) ==
    IF countWarningsByType(ws, "Verbal") >= 2
    THEN [case |-> "B", applies |-> TRUE,
          recommendation |-> "Written Warning - Substandard Work",
          priority |-> "High",
          details |-> "Agent has 2 verbal warnings and is still underperforming. Issue formal written warning for substandard work."]
    ELSE NotApplies

\* faulty variant: === 2 for >= 2
evaluateCaseCExactlyTwo(ws) ==
    IF countWarningsByType(ws, "Written") = 2
    THEN [case |-> "C", applies |-> TRUE,
          recommendation |-> "Prepare Employee Offboarding",
          priority |-> "Critical",
          details |-> "Agent has 2 written warnings and continues to underperform. Agent is at risk. Prepare for offboarding process."]
    ELSE NotApplies

evaluateCaseC(ws) ==
    IF countWarningsByType(ws, "Written") >= 2
    THEN [case |-> "C", applies |-> TRUE,
          recommendation |-> "Prepare Employee Offboarding",
          priority |-> "Critical",
          details |-> "Agent has 2 written warnings and continues to underperform. Agent is at risk. Prepare for offboarding process."]
    ELSE NotApplies

\* result.agentEmail = ...; result.metricType = ...; result.weekStartDate = ...
WithMeta(result, agentEmail, metricType, weekStartDate, weekEndDate) ==
    [agentEmail |-> agentEmail, metricType |-> metricType,
     weekStartDate |-> weekStartDate, weekEndDate |-> weekEndDate] @@ result

FirstResult ==
    [case |-> "First", applies |-> TRUE,
     recommendation |-> "First Verbal Warning",
     priority |-> "Low",
     details |-> "Agent is underperforming for the first time. Issue first verbal warning."]

\* the ladder of generateRecommendation over the rows read: C, then B, then A
\* (faulty variants: B evaluated before C; no fallback after A)
LadderVerbalFirst(ws) ==
    IF evaluateCaseB(ws).applies THEN evaluateCaseB(ws)
    ELSE IF evaluateCaseC(ws).applies THEN evaluateCaseC(ws)
    ELSE IF evaluateCaseA(ws).applies THEN evaluateCaseA(ws)
    ELSE FirstResult

LadderNoFallback(ws) ==
    IF evaluateCaseC(ws).applies THEN evaluateCaseC(ws)
    ELSE IF evaluateCaseB(ws).applies THEN evaluateCaseB(ws)
    ELSE evaluateCaseA(ws)

Ladder(ws) ==
    IF evaluateCaseC(ws).applies THEN evaluateCaseC(ws)
    ELSE IF evaluateCaseB(ws).applies THEN evaluateCaseB(ws)
    ELSE IF evaluateCaseA(ws).applies THEN evaluateCaseA(ws)
    ELSE FirstResult

generateRecommendation(W, now, agentEmail, metricType, weekStartDate, weekEndDate) ==
    WithMeta(Ladder(getActiveWarnings(W, now, agentEmail, metricType)),
             agentEmail, metricType, weekStartDate, weekEndDate)

\* the row saveRecommendation inserts for a result of generateRecommendation;
\* the columns it does not name take their defaults
NewRecommendation(now, recommendation) ==
    [agent_email |-> recommendation.agentEmail,
     recommendation_type |-> recommendation.recommendation,
     case_type |-> recommendation.case,
     metric_type |-> recommendation.metricType,
     recommendation_text |-> recommendation.details,
     priority |-> recommendation.priority,
     generated_date |-> now,
     generated_for_week_start |-> recommendation.weekStartDate,
     generated_for_week_end |-> recommendation.weekEndDate,
     is_actioned |-> FALSE,
     actioned_date |-> NULL,
     actioned_by |-> NullText,
     actioned_by_email |-> NullText,
     action_notes |-> NullText]

\* the columns the INSERT of saveRecommendation names
SavedColumns ==
    {"agent_email", "recommendation_type", "case_type", "metric_type",
     "recommendation_text", "priority", "generated_date",
     "generated_for_week_start", "generated_for_week_end"}

\* the columns consolidations.recommendations declares NOT NULL
NotNullColumns ==
    {"agent_id", "agent_email", "recommendation_type", "case_type", "metric_type",
     "recommendation_text", "generated_date"}

\* the columns it declares SERIAL or with a DEFAULT
DefaultColumns == {"recommendation_id", "priority", "is_actioned", "created_at"}

\* the NOT NULL columns an INSERT of saveRecommendation leaves without a value
MissingColumns == NotNullColumns \ (SavedColumns \cup DefaultColumns)

\* saveRecommendation: the table afterwards and the id returned, or the error
\* of the INSERT the table definition rejects
saveRecommendation(R, now, recommendation) ==
    IF MissingColumns = {}
    THEN [ok |-> TRUE, table |-> Append(R, NewRecommendation(now, recommendation)),
          value |-> Len(R) + 1]
    ELSE [ok |-> FALSE, table |-> R,
          message |-> "null value in a column violates not-null constraint"]

\* faulty variant: the flag is flipped
markActionedToggling(R, now, recommendationId, actionedBy, actionedByEmail, actionNotes) ==
    [i \in DOMAIN R |->
        IF i = recommendationId
        THEN [R[i] EXCEPT !.is_actioned = ~R[i].is_actioned,
                          !.actioned_date = now,
                          !.actioned_by = actionedBy,
                          !.actioned_by_email = actionedByEmail,
                          !.action_notes = actionNotes]
        ELSE R[i]]

\* the UPDATE of the mark-actioned endpoint: the table afterwards
markActioned(R, now, recommendationId, actionedBy, actionedByEmail, actionNotes) ==
    [i \in DOMAIN R |->
        IF i = recommendationId
        THEN [R[i] EXCEPT !.is_actioned = TRUE,
                          !.actioned_date = now,
                          !.actioned_by = actionedBy,
                          !.actioned_by_email = actionedByEmail,
                          !.action_notes = actionNotes]
        ELSE R[i]]

\* v_unactioned_recommendations: the rows shown, by recommendation_id
v_unactioned_recommendations(R) ==
    [i \in {j \in DOMAIN R : R[j].is_actioned = FALSE} |-> R[i]]

\* faulty variant: the read removes the rows it finds expired
warningsAfterSweep(W, now) ==
    LET Keep(w) == Unexpired(w.expiration_date, now) IN Where(W, Keep)

\* the warnings table after the query of getActiveWarnings, a SELECT
warningsAfterRead(W, now) == W

\* faulty variant: the row is not stored as Active
NewWarningInactive(now, agentEmail, metricType, warningType, issuedDate) ==
    [agent_email |-> agentEmail,
     metric_type |-> metricType,
     warning_type |-> warningType,
     status |-> "Expired",
     issue_date |-> IF issuedDate = NULL THEN now ELSE issuedDate,
     expiration_date |-> IF WARNING_EXPIRATION(warningType) = NULL THEN NULL
                         ELSE now + WARNING_EXPIRATION(warningType)]

\* the row recordWarning inserts; issuedDate = NULL when the caller gives none
NewWarning(now, agentEmail, metricType, warningType, issuedDate) ==
    [agent_email |-> agentEmail,
     metric_type |-> metricType,
     warning_type |-> warningType,
     status |-> "Active",
     issue_date |-> IF issuedDate = NULL THEN now ELSE issuedDate,
     expiration_date |-> IF WARNING_EXPIRATION(warningType) = NULL THEN NULL
                         ELSE now + WARNING_EXPIRATION(warningType)]

\* INTERVAL '7 days'
LeaderWindowDays == 7

\* faulty variant: the upper end of the window is excluded
checkLeaderActionStrict(W, AL, agentEmail, weekStartDate) ==
    LET Warned(w) == /\ w.agent_email = agentEmail
                     /\ w.issue_date >= weekStartDate - LeaderWindowDays
                     /\ w.issue_date < weekStartDate + LeaderWindowDays
        Acted(a) == /\ a.agent_email = agentEmail
                    /\ a.action_date >= weekStartDate - LeaderWindowDays
                    /\ a.action_date < weekStartDate + LeaderWindowDays
    IN Rows(Where(W, Warned)) + Rows(Where(AL, Acted)) > 0

checkLeaderAction(W, AL, agentEmail, weekStartDate) ==
    LET Warned(w) == /\ w.agent_email = agentEmail
                     /\ w.issue_date >= weekStartDate - LeaderWindowDays
                     /\ w.issue_date <= weekStartDate + LeaderWindowDays
        Acted(a) == /\ a.agent_email = agentEmail
                    /\ a.action_date >= weekStartDate - LeaderWindowDays
                    /\ a.action_date <= weekStartDate + LeaderWindowDays
    IN Rows(Where(W, Warned)) + Rows(Where(AL, Acted)) > 0

Underperforming(w) ==
    \/ w.flag_qa = "Low" \/ w.flag_qa = "Critical"
    \/ w.flag_prod = "Low" \/ w.flag_prod = "Critical"

evaluateCaseD(W, AL, agentEmail, leaderEmail, weeksData) ==
    LET underperformingWeeks == SelectSeq(weeksData, Underperforming)
    IN IF Len(underperformingWeeks) <= 2 THEN NotApplies
       ELSE IF ~checkLeaderAction(W, AL, agentEmail, underperformingWeeks[1].start_date)
       THEN [case |-> "D", applies |-> TRUE,
             recommendation |-> "Leadership Behavior Report + Verbal Warning for Leader",
             priority |-> "High",
             details |-> <<"Agent has been underperforming for ",
                           Len(underperformingWeeks),
                           " weeks with no documented actions from direct leader. Issue leadership behavior report.">>,
             leaderEmail |-> leaderEmail]
       ELSE NotApplies

\* faulty variant: the expiration condition is missing
activeReportsAnyDate(LR, now, leaderEmail) ==
    LET Keep(r) == /\ r.leader_email = leaderEmail
                   /\ r.is_active = TRUE
    IN Where(LR, Keep)

\* the leadership_reports query of evaluateCaseE
activeReports(LR, now, leaderEmail) ==
    LET Keep(r) == /\ r.leader_email = leaderEmail
                   /\ r.is_active = TRUE
                   /\ Unexpired(r.expires_date, now)
    IN Where(LR, Keep)

\* the query of GET /api/leadership-reports: leader_email is compared when
\* the request names a leader, is_active when activeOnly is 'true'
leadershipReports(LR, leaderEmail, activeOnly) ==
    LET Keep(r) == /\ (leaderEmail # Undefined => r.leader_email = leaderEmail)
                   /\ (activeOnly => r.is_active = TRUE)
    IN Where(LR, Keep)

evaluateCaseE(LR, now, leaderEmail) ==
    IF Rows(activeReports(LR, now, leaderEmail)) >= 1
    THEN [case |-> "E", applies |-> TRUE,
          recommendation |-> "Second Leadership Behavior Report + Written Warning for Leader",
          priority |-> "Critical",
          details |-> "Leader has failed to follow procedures again within warning period. Issue written warning.",
          leaderEmail |-> leaderEmail]
    ELSE NotApplies

---------------------------------------------------------------------------
(* Operations *)

\* POST /api/warnings -> recordWarning; writeOk = FALSE when pool.query
\* rejects, which leaves the table as it was
RecordWarning(agentEmail, metricType, warningType, issuedDate, writeOk) ==
    /\ Rows(warnings) < MaxWarnings
    /\ warnings' =
           IF writeOk
           THEN Insert(warnings,
                       NewWarning(today, agentEmail, metricType, warningType, issuedDate))
           ELSE warnings
    /\ resp' = [op |-> "recordWarning", date |-> today,
                warningData |-> [agentEmail |-> agentEmail, metricType |-> metricType,
                                 warningType |-> warningType, issuedDate |-> issuedDate]]
                @@ (IF writeOk
                    THEN [status |-> 200, success |-> TRUE]
                    ELSE [status |-> 500, error |-> "Server Error",
                          details |-> "query failed"])
    /\ UNCHANGED <<action_log, leadership_reports, recommendations, today, callers>>

\* GET /api/warnings/:agentEmail/active -> getActiveWarnings
GetActiveWarnings(agentEmail, metricType) ==
    /\ resp' = [op |-> "getActiveWarnings", date |-> today,
                agentEmail |-> agentEmail, metricType |-> metricType,
                rows |-> getActiveWarnings(warnings, today, agentEmail, metricType)]
    /\ warnings' = warningsAfterRead(warnings, today)
    /\ UNCHANGED <<action_log, leadership_reports, recommendations, today, callers>>

\* faulty variant: a failed read of the warnings is taken as no warnings
tryGenerateSwallowing(W, now, agentEmail, metricType, week, readOk) ==
    [ok |-> TRUE,
     value |-> generateRecommendation(IF readOk THEN W ELSE EmptyBag, now, agentEmail,
                                      metricType, week.weekStartDate, week.weekEndDate)]

\* the try block of generateRecommendation: the recommendation or, when
\* pool.query rejects (readOk = FALSE), the error thrown again by the catch
tryGenerate(W, now, agentEmail, metricType, week, readOk) ==
    IF readOk
    THEN [ok |-> TRUE,
          value |-> generateRecommendation(W, now, agentEmail, metricType,
                                           week.weekStartDate, week.weekEndDate)]
    ELSE [ok |-> FALSE, message |-> "query failed"]

\* res.json(value), or res.status(500).json({error, details}) of the catch
Answer(outcome) ==
    IF outcome.ok
    THEN [status |-> 200, result |-> outcome.value]
    ELSE [status |-> 500, error |-> "Server Error", details |-> outcome.message]

\* POST /api/recommendations/generate -> generateRecommendation
GenerateRecommendation(agentEmail, metricType, week, readOk) ==
    /\ resp' = [op |-> "generate", date |-> today, readOk |-> readOk,
                agentEmail |-> agentEmail, metricType |-> metricType, week |-> week]
                @@ Answer(tryGenerate(warnings, today, agentEmail, metricType, week, readOk))
    /\ warnings' = warningsAfterRead(warnings, today)
    /\ UNCHANGED <<action_log, leadership_reports, recommendations, today, callers>>

\* evaluateCaseD on a period's weekly rows
EvaluateCaseD(agentEmail, leaderEmail, weeksData) ==
    /\ resp' = [op |-> "caseD", date |-> today,
                agentEmail |-> agentEmail, leaderEmail |-> leaderEmail,
                weeksData |-> weeksData,
                result |-> evaluateCaseD(warnings, action_log, agentEmail, leaderEmail,
                                         weeksData)]
    /\ UNCHANGED <<warnings, action_log, leadership_reports, recommendations, today, callers>>

\* evaluateCaseE on a leader
EvaluateCaseE(leaderEmail) ==
    /\ resp' = [op |-> "caseE", date |-> today, leaderEmail |-> leaderEmail,
                result |-> evaluateCaseE(leadership_reports, today, leaderEmail)]
    /\ UNCHANGED <<warnings, action_log, leadership_reports, recommendations, today, callers>>

\* PATCH /api/recommendations/:recommendationId/action, by.actionedBy,
\* by.actionedByEmail and by.actionNotes being the fields of the body;
\* queryOk = FALSE when pool.query rejects
MarkActioned(recommendationId, by, queryOk) ==
    /\ recommendations' =
           IF queryOk
           THEN markActioned(recommendations, today, recommendationId,
                             by.actionedBy, by.actionedByEmail, by.actionNotes)
           ELSE recommendations
    /\ resp' = [op |-> "markActioned", date |-> today,
                recommendationId |-> recommendationId, by |-> by]
                @@ (IF ~queryOk
                    THEN [status |-> 500, error |-> "Server Error"]
                    ELSE IF recommendationId \notin DOMAIN recommendations
                    THEN [status |-> 404, error |-> "Recommendation not found"]
                    ELSE [status |-> 200, success |-> TRUE,
                          recommendation |-> recommendations'[recommendationId]])
    /\ UNCHANGED <<warnings, action_log, leadership_reports, today, callers>>

\* GET /api/recommendations/unactioned/all
GetUnactioned ==
    /\ resp' = [op |-> "unactioned", date |-> today, status |-> 200,
                rows |-> v_unactioned_recommendations(recommendations)]
    /\ UNCHANGED <<warnings, action_log, leadership_reports, recommendations, today, callers>>

\* a caller awaits generateRecommendation: the SELECT runs and the ladder is
\* evaluated on its rows
CallerGenerate(c, agentEmail, metricType, week) ==
    /\ callers[c].pc = "idle"
    /\ callers' = [callers EXCEPT ![c] =
           [pc |-> "generated", date |-> today,
            agentEmail |-> agentEmail, metricType |-> metricType, week |-> week,
            rows |-> getActiveWarnings(warnings, today, agentEmail, metricType),
            recommendation |-> generateRecommendation(warnings, today, agentEmail,
                                   metricType, week.weekStartDate, week.weekEndDate)]]
    /\ warnings' = warningsAfterRead(warnings, today)
    /\ UNCHANGED <<action_log, leadership_reports, recommendations, today, resp>>

\* the caller then awaits saveRecommendation on the result: the INSERT runs
CallerSave(c) ==
    /\ callers[c].pc = "generated"
    /\ LET saved == saveRecommendation(recommendations, today, callers[c].recommendation)
       IN /\ recommendations' = saved.table
          /\ callers' = [callers EXCEPT ![c] =
                 [callers[c] EXCEPT !.pc = "saved"] @@ [stored |-> saved.ok]]
    /\ UNCHANGED <<warnings, action_log, leadership_reports, today, resp>>

\* GET /api/leadership-reports
GetLeadershipReports(leaderEmail, activeOnly) ==
    /\ resp' = [op |-> "leadershipReports", date |-> today, status |-> 200,
                leaderEmail |-> leaderEmail, activeOnly |-> activeOnly,
                rows |-> leadershipReports(leadership_reports, leaderEmail, activeOnly)]
    /\ UNCHANGED <<warnings, action_log, leadership_reports, recommendations, today, callers>>

\* a day passes
Tick ==
    /\ today < LastDay
    /\ today' = today + 1
    /\ UNCHANGED <<warnings, action_log, leadership_reports, recommendations, callers, resp>>

---------------------------------------------------------------------------
(* The ladder: warnings are recorded and recommendations generated on one day *)

InitLadder ==
    /\ warnings = EmptyBag
    /\ action_log = EmptyBag
    /\ leadership_reports = EmptyBag
    /\ recommendations = <<>>
    /\ today = 0
    /\ callers = <<>>
    /\ resp = NoResp

RecordStep ==
    \E a \in Agents, m \in Metrics, t \in WarningTypes :
        RecordWarning(a, m, t, NULL, TRUE)

ReadStep ==
    \E a \in Agents, m \in Metrics : GetActiveWarnings(a, m)

GenerateStep ==
    \E a \in Agents, m \in Metrics, wk \in GenWeeks :
        GenerateRecommendation(a, m, wk, TRUE)

NextLadder == RecordStep \/ ReadStep \/ GenerateStep

SpecLadder == InitLadder /\ [][NextLadder]_vars

---------------------------------------------------------------------------
(* The read filter: a table of older rows, of any status and expiration, is
   read on successive days *)

InitFilter ==
    /\ warnings \in BagsUpTo(LegacyWarnings, MaxLegacy)
    /\ action_log = EmptyBag
    /\ leadership_reports = EmptyBag
    /\ recommendations = <<>>
    /\ today = FirstDay
    /\ callers = <<>>
    /\ resp = NoResp

NextFilter == Tick \/ ReadStep \/ GenerateStep

SpecFilter == InitFilter /\ [][NextFilter]_vars

---------------------------------------------------------------------------
(* Case D: one period of an agent is evaluated against the warnings issued
   and the actions logged *)

IssuedWarnings ==
    {NewWarning(d, a, "QA", t, NULL) :
        d \in ActionDates, a \in Agents, t \in {"Verbal", "Coaching"}}

LoggedActions == [agent_email : Agents, action_date : ActionDates]

InitCaseD ==
    /\ warnings \in OneRowOrNone(IssuedWarnings)
    /\ action_log \in OneRowOrNone(LoggedActions)
    /\ leadership_reports = EmptyBag
    /\ recommendations = <<>>
    /\ today = LastDay
    /\ callers = <<>>
    /\ resp = NoResp

\* one evaluation is made in each run
CaseDStep ==
    /\ resp = NoResp
    /\ \E a \in Agents, wd \in ListsUpTo(DataWeeks, MaxWeeks) :
           EvaluateCaseD(a, LeaderOf(a), wd)

NextCaseD == CaseDStep

SpecCaseD == InitCaseD /\ [][NextCaseD]_vars

---------------------------------------------------------------------------
(* Case E: a leader with earlier reports is evaluated on successive days,
   for agents on whom no action was taken *)

ReportRows ==
    [leader_email : Leaders, report_type : {"First Report"}, is_active : BOOLEAN,
     issued_date : {0}, expires_date : ExpDates]
MaxReports == 2

\* the weekly rows of one week start
OneStartWeeks == {w \in DataWeeks : w.start_date = 10}

InitCaseE ==
    /\ warnings = EmptyBag
    /\ action_log = EmptyBag
    /\ leadership_reports \in BagsUpTo(ReportRows, MaxReports)
    /\ recommendations = <<>>
    /\ today = FirstDay
    /\ callers = <<>>
    /\ resp = NoResp

\* one evaluation is made in each run, on any of the days
CaseEStep ==
    /\ resp = NoResp
    /\ \E l \in Leaders : EvaluateCaseE(l)

InactionStep ==
    /\ resp = NoResp
    /\ \E a \in Agents, wd \in ListsUpTo(OneStartWeeks, MaxWeeks) :
           EvaluateCaseD(a, LeaderOf(a), wd)

ReportsStep ==
    /\ resp = NoResp
    /\ \E l \in Leaders \cup {Undefined}, activeOnly \in BOOLEAN :
           GetLeadershipReports(l, activeOnly)

NextCaseE == Tick \/ CaseEStep \/ InactionStep \/ ReportsStep

SpecCaseE == InitCaseE /\ [][NextCaseE]_vars

---------------------------------------------------------------------------
(* Requests: the read endpoints are called on successive days on tables that
   hold rows, with requests that lack a field or name an unknown metric and
   with reads of the warnings that fail *)

StoredWarnings ==
    [agent_email : {"a1"}, metric_type : {"QA"}, warning_type : {"Verbal", "Written"},
     status : {"Active"}, issue_date : {0}, expiration_date : ExpDates]
MaxStored == 2

StoredActions == {[agent_email |-> "a1", action_date |-> 2]}

StoredReports ==
    {[leader_email |-> "l1", report_type |-> "First Report", is_active |-> TRUE,
      issued_date |-> 0, expires_date |-> NULL]}

\* the rows the table holds for the results generated on day 0, with the
\* values saveRecommendation gives the columns it names
StoredRecommendations ==
    {NewRecommendation(0, generateRecommendation(W, 0, a, "QA", wk.weekStartDate,
                                                 wk.weekEndDate)) :
        W \in BagsUpTo(StoredWarnings, 1), a \in Agents, wk \in GenWeeks}

\* the agents and metrics a request may name
RequestAgents == Agents \cup {Undefined}
RequestMetrics == Metrics \cup {Undefined, "Attendance"}

InitRequests ==
    /\ warnings \in BagsUpTo(StoredWarnings, MaxStored)
    /\ action_log \in OneRowOrNone(StoredActions)
    /\ leadership_reports \in OneRowOrNone(StoredReports)
    /\ recommendations \in ListsUpTo(StoredRecommendations, 1)
    /\ today = FirstDay
    /\ callers = <<>>
    /\ resp = NoResp

ReadAnyStep ==
    \E a \in RequestAgents, m \in RequestMetrics : GetActiveWarnings(a, m)

GenerateAnyStep ==
    \E a \in RequestAgents, m \in RequestMetrics, wk \in GenWeeks, readOk \in BOOLEAN :
        GenerateRecommendation(a, m, wk, readOk)

NextRequests == Tick \/ ReadAnyStep \/ GenerateAnyStep

SpecRequests == InitRequests /\ [][NextRequests]_vars

---------------------------------------------------------------------------
(* Follow-up: recommendations saved earlier are marked as actioned, more than
   once and by different people, and the unactioned ones are listed *)

\* the rows the table holds for agent a1
PendingRecommendations == {r \in StoredRecommendations : r.agent_email = "a1"}
MaxRecs == 2

\* who marks a recommendation, as the body of the request names them
Actors ==
    {[actionedBy |-> "d1", actionedByEmail |-> "d1@x", actionNotes |-> "called"],
     [actionedBy |-> "d2", actionedByEmail |-> "d2@x", actionNotes |-> "met"]}

InitActioned ==
    /\ warnings = EmptyBag
    /\ action_log = EmptyBag
    /\ leadership_reports = EmptyBag
    /\ recommendations \in ListsUpTo(PendingRecommendations, MaxRecs)
    /\ today = FirstDay
    /\ callers = <<>>
    /\ resp = NoResp

\* the ids named are those of the rows and the one after the last
MarkStep ==
    \E id \in 1..(Len(recommendations) + 1), by \in Actors, queryOk \in BOOLEAN :
        MarkActioned(id, by, queryOk)

UnactionedStep == GetUnactioned

NextActioned == Tick \/ MarkStep \/ UnactionedStep

SpecActioned == InitActioned /\ [][NextActioned]_vars

---------------------------------------------------------------------------
(* Recording: warnings are recorded on successive days, with and without an
   issue date given by the caller, by requests that succeed or fail, next to
   rows of the other tables *)

\* the issue dates a caller gives: none, or an earlier day
IssuedDates == {NULL, 0}
MaxRecorded == 2

InitRecord ==
    /\ warnings = EmptyBag
    /\ action_log \in {SetToBag({r}) : r \in StoredActions}
    /\ leadership_reports \in {SetToBag({r}) : r \in StoredReports}
    /\ recommendations \in {<<r>> : r \in PendingRecommendations}
    /\ today = FirstDay
    /\ callers = <<>>
    /\ resp = NoResp

RecordAnyStep ==
    /\ Rows(warnings) < MaxRecorded
    /\ \E a \in Agents, t \in WarningTypes, d \in IssuedDates, writeOk \in BOOLEAN :
           RecordWarning(a, "QA", t, d, writeOk)

NextRecord == Tick \/ RecordAnyStep

SpecRecord == InitRecord /\ [][NextRecord]_vars

---------------------------------------------------------------------------
(* Generate and save: two callers each generate a recommendation and save it,
   their steps interleaved with each other and with the recording of
   warnings *)

Callers == {"c1", "c2"}

InitSave ==
    /\ warnings \in BagsUpTo(StoredWarnings, MaxStored)
    /\ action_log = EmptyBag
    /\ leadership_reports = EmptyBag
    /\ recommendations = <<>>
    /\ today = FirstDay
    /\ callers = [c \in Callers |-> [pc |-> "idle"]]
    /\ resp = NoResp

CallerGenerateStep ==
    \E c \in Callers, a \in Agents, wk \in GenWeeks : CallerGenerate(c, a, "QA", wk)

CallerSaveStep == \E c \in Callers : CallerSave(c)

RecordVerbalStep ==
    /\ Rows(warnings) <= MaxStored
    /\ RecordWarning("a1", "QA", "Verbal", NULL, TRUE)

NextSave == CallerGenerateStep \/ CallerSaveStep \/ RecordVerbalStep

SpecSave == InitSave /\ [][NextSave]_vars

---------------------------------------------------------------------------
(* The service: every operation on warnings and recommendations, in any
   order and on successive days, on a table that holds an older warning *)

InitService ==
    /\ warnings \in BagsUpTo(StoredWarnings, 1)
    /\ action_log \in {SetToBag({r}) : r \in StoredActions}
    /\ leadership_reports \in {SetToBag({r}) : r \in StoredReports}
    /\ recommendations \in {<<r>> : r \in PendingRecommendations}
    /\ today = FirstDay
    /\ callers = <<>>
    /\ resp = NoResp

ServiceRecordStep ==
    /\ Rows(warnings) < MaxRecorded
    /\ \E t \in WarningTypes, d \in IssuedDates : RecordWarning("a1", "QA", t, d, TRUE)

ServiceMarkStep ==
    \E id \in DOMAIN recommendations, by \in {b \in Actors : b.actionedBy = "d1"} :
        MarkActioned(id, by, TRUE)

NextService ==
    \/ Tick
    \/ ServiceRecordStep
    \/ ReadStep
    \/ GenerateStep
    \/ ServiceMarkStep
    \/ UnactionedStep

SpecService == InitService /\ [][NextService]_vars

---------------------------------------------------------------------------
(* What the claims speak of, counted on the tables themselves *)

\* the number of currently-active warnings of one kind of an agent and metric
ActiveOfType(agentEmail, metricType, warningType) ==
    LET Counts(w) == /\ w.agent_email = agentEmail
                     /\ w.metric_type = metricType
                     /\ w.warning_type = warningType
                     /\ w.status = "Active"
                     /\ (w.expiration_date = NULL \/ ~(w.expiration_date < resp.date))
        hit == {w \in DOMAIN warnings : Counts(w)}
        Sum[S \in SUBSET hit] ==
            IF S = {} THEN 0
            ELSE LET w == CHOOSE x \in S : TRUE IN warnings[w] + Sum[S \ {w}]
    IN Sum[hit]

\* a recommendation was returned by the last call
Generated == resp.op = "generate" /\ resp.status = 200

Verbals == ActiveOfType(resp.agentEmail, resp.metricType, "Verbal")
Writtens == ActiveOfType(resp.agentEmail, resp.metricType, "Written")
Coachings == ActiveOfType(resp.agentEmail, resp.metricType, "Coaching")

\* the cases of the agent ladder, least severe first
Severity(case) ==
    CASE case = "First" -> 0
      [] case = "A" -> 1
      [] case = "B" -> 2
      [] case = "C" -> 3

\* one more active warning of a kind for the agent and metric of the last call
OneMore(warningType) ==
    Insert(warnings, NewWarning(resp.date, resp.agentEmail, resp.metricType, warningType, NULL))

CaseWith(W) ==
    generateRecommendation(W, resp.date, resp.agentEmail, resp.metricType,
                           resp.week.weekStartDate, resp.week.weekEndDate).case

---------------------------------------------------------------------------
(* Claims on the ladder, under SpecLadder *)

\* C1: whenever the active warnings of the agent and metric hold 2 or more
\* Written warnings, generateRecommendation returns case C with priority
\* Critical, whatever the number of Verbal and Coaching warnings.
C1_WrittenTwoIsC ==
    (Generated /\ Writtens >= 2) =>
        (resp.result.case = "C" /\ resp.result.priority = "Critical")

C1_Witness ==
    Generated /\ Writtens >= 2 /\ Verbals >= 3 /\ resp.result.case = "C"

\* C2: with 2 or more active Verbal and fewer than 2 active Written warnings
\* the result is case B with priority High, and one more active Verbal
\* warning does not lead to a less severe case.
C2_VerbalTwoIsB ==
    (Generated /\ Verbals >= 2 /\ Writtens < 2) =>
        /\ resp.result.case = "B"
        /\ resp.result.priority = "High"
        /\ Severity(CaseWith(OneMore("Verbal"))) >= Severity(resp.result.case)

C2_Witness ==
    Generated /\ Verbals >= 3 /\ Writtens = 1 /\ resp.result.case = "B"

\* C3: with exactly 1 active Verbal and no active Written warning the result
\* is case A with priority Medium.
C3_OneVerbalIsA ==
    (Generated /\ Verbals = 1 /\ Writtens = 0) =>
        (resp.result.case = "A" /\ resp.result.priority = "Medium")

C3_Witness ==
    Generated /\ Verbals = 1 /\ Writtens = 0 /\ Coachings >= 1 /\ resp.result.case = "A"

\* C4: with no active Verbal and no active Written warning the result is case
\* First with priority Low, whatever the number of Coaching warnings, and one
\* more Coaching warning never changes the case returned.
C4_NoneIsFirst ==
    Generated =>
        /\ (Verbals = 0 /\ Writtens = 0) =>
               (resp.result.case = "First" /\ resp.result.priority = "Low")
        /\ CaseWith(OneMore("Coaching")) = resp.result.case

C4_Witness ==
    Generated /\ Verbals = 0 /\ Writtens = 0 /\ Coachings >= 2 /\ resp.result.case = "First"

\* C5: every call of generateRecommendation returns one result that applies,
\* whose case is A, B, C or First and which carries the call's agent and
\* metric; two calls in a row on the same tables and date return the same
\* case and priority.
C5_ResultApplies ==
    Generated =>
        /\ resp.result.applies = TRUE
        /\ resp.result.case \in {"A", "B", "C", "First"}
        /\ resp.result.priority \in {"Low", "Medium", "High", "Critical"}
        /\ resp.result.agentEmail = resp.agentEmail
        /\ resp.result.metricType = resp.metricType

C5_SameCallSameResult ==
    (/\ Generated
     /\ resp'.op = "generate"
     /\ resp'.agentEmail = resp.agentEmail
     /\ resp'.metricType = resp.metricType
     /\ resp'.week = resp.week
     /\ resp'.date = resp.date
     /\ warnings' = warnings) =>
        resp'.result = resp.result

C5_TotalDeterministic == [](C5_ResultApplies) /\ [][C5_SameCallSameResult]_vars

C5_Witness ==
    Generated /\ Rows(warnings) >= 2 /\ resp.result.case = "First" /\ resp.result.applies

\* C8: case First is returned only when the agent has no active Verbal and no
\* active Written warning of the metric.
C8_FirstOnlyWithoutWarnings ==
    (Generated /\ resp.result.case = "First") => (Verbals = 0 /\ Writtens = 0)

---------------------------------------------------------------------------
(* Claims on the read filter, under SpecFilter *)

\* a warning that counts at the date of the last call
Counts(w) ==
    /\ w.status = "Active"
    /\ (w.expiration_date = NULL \/ ~(w.expiration_date < resp.date))

OfCall(w) == w.agent_email = resp.agentEmail /\ w.metric_type = resp.metricType

\* the rows of the call's agent and metric that satisfy P
Held(P(_)) ==
    LET Keep(w) == OfCall(w) /\ P(w) IN Rows(Where(warnings, Keep))

ExpiredWritten(w) ==
    /\ w.warning_type = "Written"
    /\ w.expiration_date # NULL
    /\ w.expiration_date < resp.date

\* C6: a warning whose status is not Active or whose expiration date is
\* earlier than the evaluation date counts toward no threshold: with all such
\* warnings removed from the table generateRecommendation returns the same
\* case, and an agent whose only warnings are expired Written ones gets First.
C6_ExpiredNeverCount ==
    Generated =>
        /\ CaseWith(Where(warnings, Counts)) = resp.result.case
        /\ (Held(ExpiredWritten) = Rows(Where(warnings, OfCall))) =>
               resp.result.case = "First"

C6_Witness ==
    /\ Generated
    /\ Held(ExpiredWritten) >= 2
    /\ Held(ExpiredWritten) = Rows(Where(warnings, OfCall))
    /\ resp.result.case = "First"

\* C7: getActiveWarnings(agent, metric) returns exactly the rows of that agent
\* and metric whose status is Active and whose expiration is null or not
\* earlier than the evaluation date, each as often as the table holds it; so
\* a row expiring on the evaluation date and a row with null expiration are
\* returned.
C7_ActiveRowsExactly ==
    resp.op = "getActiveWarnings" =>
        \A w \in DOMAIN warnings \cup DOMAIN resp.rows :
            CopiesIn(w, resp.rows) =
                IF OfCall(w) /\ Counts(w) THEN CopiesIn(w, warnings) ELSE 0

C7_Witness ==
    /\ resp.op = "getActiveWarnings"
    /\ \E w \in DOMAIN resp.rows : w.expiration_date = resp.date
    /\ \E w \in DOMAIN resp.rows : w.expiration_date = NULL

---------------------------------------------------------------------------
(* Claims on the leadership cases, under SpecCaseD and SpecCaseE *)

\* the positions of the underperforming weeks in the rows supplied
UnderAt(weeksData) ==
    {i \in DOMAIN weeksData :
        \/ weeksData[i].flag_qa \in {"Low", "Critical"}
        \/ weeksData[i].flag_prod \in {"Low", "Critical"}}

\* the start of the first underperforming week, in the order supplied
FirstUnderStart(weeksData) ==
    weeksData[CHOOSE i \in UnderAt(weeksData) :
                  \A j \in UnderAt(weeksData) : i <= j].start_date

Near(date, start) == date - start <= 7 /\ start - date <= 7

\* a warning or an action-log entry of the agent dated within 7 days of start
ActionNear(agentEmail, start) ==
    \/ \E w \in DOMAIN warnings :
           w.agent_email = agentEmail /\ Near(w.issue_date, start)
    \/ \E a \in DOMAIN action_log :
           a.agent_email = agentEmail /\ Near(a.action_date, start)

\* the leader was bound to act on the agent of the last call and did not
Inaction ==
    /\ Cardinality(UnderAt(resp.weeksData)) > 2
    /\ ~ActionNear(resp.agentEmail, FirstUnderStart(resp.weeksData))

SoleRecordAt(agentEmail, date) ==
    /\ \A w \in DOMAIN warnings : w.agent_email # agentEmail
    /\ \E a \in DOMAIN action_log : a.agent_email = agentEmail /\ a.action_date = date

ActiveReportsOf(leaderEmail) ==
    {r \in DOMAIN leadership_reports :
        /\ r.leader_email = leaderEmail
        /\ r.is_active
        /\ (r.expires_date = NULL \/ ~(r.expires_date < resp.date))}

\* C10: evaluateCaseE applies, as case E with priority Critical, only when
\* the leader has an active report that is unexpired at the evaluation date;
\* with no such report it does not apply, and an inaction of that leader is
\* evaluated by evaluateCaseD as case D.
C10_CaseENeedsActiveReport ==
    /\ resp.op = "caseE" =>
           /\ resp.result.applies => ActiveReportsOf(resp.leaderEmail) # {}
           /\ resp.result.applies =>
                  (resp.result.case = "E" /\ resp.result.priority = "Critical")
           /\ ActiveReportsOf(resp.leaderEmail) = {} => ~resp.result.applies
    /\ (resp.op = "caseD" /\ ActiveReportsOf(resp.leaderEmail) = {} /\ Inaction) =>
           (resp.result.applies /\ resp.result.case = "D")

C10_Witness ==
    /\ resp.op = "caseE"
    /\ ~resp.result.applies
    /\ \E r \in DOMAIN leadership_reports :
           /\ r.leader_email = resp.leaderEmail
           /\ r.is_active
           /\ r.expires_date # NULL
           /\ r.expires_date < resp.date
    /\ \E r \in DOMAIN leadership_reports :
           r.leader_email # resp.leaderEmail /\ r.is_active /\ r.expires_date = NULL

\* C11: cases D and E exclude each other: when the leader has an active,
\* unexpired report and the conditions of case D hold for one of the agents,
\* the evaluation of the leader yields case E and the evaluation of the
\* inaction does not yield case D.
C11_ActiveReportExcludesD ==
    (resp.op = "caseD" /\ ActiveReportsOf(resp.leaderEmail) # {} /\ Inaction) =>
        /\ evaluateCaseE(leadership_reports, resp.date, resp.leaderEmail).applies
        /\ ~resp.result.applies

\* C12: when case D fires, a report of type First Report of that leader is
\* in the leadership_reports table afterwards, so that evaluateCaseE on the
\* same leader then applies.
C12_CaseDLeavesReport ==
    (resp.op = "caseD" /\ resp.result.applies) =>
        /\ \E r \in DOMAIN leadership_reports :
               /\ r.leader_email = resp.leaderEmail
               /\ r.report_type = "First Report"
               /\ r.is_active
        /\ evaluateCaseE(leadership_reports, resp.date, resp.leaderEmail).applies

---------------------------------------------------------------------------
(* Claims on the requests, under SpecRequests *)

\* C13: when the read of the warnings fails, generateRecommendation fails
\* with the read's error: the generate endpoint answers with an error and
\* returns no recommendation, case First included.
C13_ReadFailureIsError ==
    (resp.op = "generate" /\ ~resp.readOk) =>
        /\ resp.status = 500
        /\ resp.error = "Server Error"
        /\ "result" \notin DOMAIN resp

C13_Witness ==
    /\ resp.op = "generate"
    /\ ~resp.readOk
    /\ resp.status = 500
    /\ resp.agentEmail \in Agents
    /\ resp.metricType \in Metrics
    /\ Rows(warnings) >= 2

\* C14: a generate request whose agent or metric is missing or is none of
\* the known ones is rejected: it is answered with an error and never with a
\* recommendation.
C14_BadRequestRejected ==
    (resp.op = "generate" /\ resp.readOk
        /\ (resp.agentEmail \notin Agents \/ resp.metricType \notin Metrics)) =>
        (resp.status # 200 /\ "result" \notin DOMAIN resp)

---------------------------------------------------------------------------
(* Claims on inputs the rules leave open, under SpecLadder *)

\* the agent of the last call has active Verbal or Written warnings of the
\* metric and yet none of the thresholds of cases A, B and C is met: the
\* rules name no case, and the agent is not one without relevant warnings
Unclassified == (Verbals > 0 \/ Writtens > 0) /\ Verbals = 0 /\ Writtens < 2

\* C15: for an input the rules do not classify, generateRecommendation
\* returns a result of its own, which is none of A, B, C and First, in
\* place of First.
C15_UnclassifiedIsNamed ==
    (Generated /\ Unclassified) => resp.result.case \notin {"A", "B", "C", "First"}

---------------------------------------------------------------------------
(* Claims on the effect of the reads, under SpecRequests *)

\* the step is a call of getActiveWarnings or of generateRecommendation
ReadCall == resp'.op \in {"getActiveWarnings", "generate"}

\* the step repeats the read of the active warnings just made
SameRead ==
    /\ resp.op = "getActiveWarnings"
    /\ resp'.op = "getActiveWarnings"
    /\ resp'.agentEmail = resp.agentEmail
    /\ resp'.metricType = resp.metricType
    /\ resp'.date = resp.date

C16_ReadLeavesTables ==
    /\ ReadCall => tables' = tables
    /\ SameRead => resp'.rows = resp.rows

\* C16: a call of getActiveWarnings or of generateRecommendation changes no
\* row of the warnings, recommendations, leadership_reports and action_log
\* tables, and reading the active warnings twice on the same tables and date
\* returns the same rows.
C16_ReadsAreSideEffectFree == [][C16_ReadLeavesTables]_vars

C16_Witness ==
    /\ resp.op = "getActiveWarnings"
    /\ Rows(resp.rows) >= 1
    /\ Rows(resp.rows) < Rows(warnings)
    /\ Rows(action_log) >= 1
    /\ Rows(leadership_reports) >= 1
    /\ Len(recommendations) >= 1

---------------------------------------------------------------------------
(* Claims on the follow-up, under SpecActioned *)

\* the columns a mark-actioned request writes besides the flag
ActionedFields(r) ==
    <<r.actioned_date, r.actioned_by, r.actioned_by_email, r.action_notes>>

\* the columns saveRecommendation wrote
SavedFields(r) ==
    <<r.agent_email, r.recommendation_type, r.case_type, r.metric_type,
      r.recommendation_text, r.priority, r.generated_date,
      r.generated_for_week_start, r.generated_for_week_end>>

C17_SetOnceStep ==
    \A i \in DOMAIN recommendations :
        /\ i \in DOMAIN recommendations'
        /\ SavedFields(recommendations'[i]) = SavedFields(recommendations[i])
        /\ recommendations[i].is_actioned =>
               ActionedFields(recommendations'[i]) = ActionedFields(recommendations[i])

\* C17: the actioned date, actioned-by name, actioned-by email and action
\* notes of a recommendation are set once: a mark-actioned request on a
\* recommendation already actioned leaves them as they are, and no request
\* changes any other column of a recommendation.
C17_ActionedFieldsSetOnce == [][C17_SetOnceStep]_vars

\* the step lists the unactioned recommendations
ListsUnactioned ==
    resp'.op = "unactioned" /\ today' = today /\ recommendations' = recommendations

C18_OneWayStep ==
    \A i \in DOMAIN recommendations :
        recommendations[i].is_actioned =>
            /\ i \in DOMAIN recommendations'
            /\ recommendations'[i].is_actioned
            /\ ListsUnactioned => i \notin DOMAIN resp'.rows

\* C18: a recommendation that is actioned stays actioned in every later
\* state, whatever requests follow, and is in no later listing of the
\* unactioned recommendations.
C18_ActionedIsOneWay == [][C18_OneWayStep]_vars

\* the unactioned recommendations are listed a day or more after one was
\* marked, while another one is still unactioned
C18_Witness ==
    /\ resp.op = "unactioned"
    /\ Len(recommendations) >= 2
    /\ \E i \in DOMAIN recommendations :
           /\ recommendations[i].is_actioned
           /\ recommendations[i].actioned_date < resp.date
           /\ i \notin DOMAIN resp.rows
    /\ DOMAIN resp.rows # {}

---------------------------------------------------------------------------
(* Claims on the recording of warnings, under SpecRecord *)

\* C19: the expiration date stored for a warning is its stored issue date
\* plus the duration of its kind, 90 days for Verbal and 180 for Written,
\* also when the caller gave an issue date other than the current date; a
\* Coaching warning has no expiration date.
C19_ExpirationFromIssueDate ==
    \A w \in DOMAIN warnings :
        /\ w.warning_type = "Verbal" => w.expiration_date = w.issue_date + 90
        /\ w.warning_type = "Written" => w.expiration_date = w.issue_date + 180
        /\ w.warning_type = "Coaching" => w.expiration_date = NULL

\* the step is a call of recordWarning
RecordCall == resp'.op = "recordWarning" /\ today' = today

\* the row r was stored for the request of the step
StoredFor(r) ==
    /\ warnings' = Insert(warnings, r)
    /\ r.status = "Active"
    /\ r.agent_email = resp'.warningData.agentEmail
    /\ r.warning_type = resp'.warningData.warningType
    /\ r.metric_type = resp'.warningData.metricType

C20_RecordStep ==
    RecordCall =>
        /\ UNCHANGED <<action_log, leadership_reports, recommendations>>
        /\ resp'.status = 200 => \E r \in DOMAIN warnings' : StoredFor(r)
        /\ resp'.status # 200 =>
               /\ warnings' = warnings
               /\ resp'.error = "Server Error"
               /\ resp'.details = "query failed"

\* C20: a successful recordWarning adds exactly one row to the warnings
\* table, with status Active and the agent, kind and metric of the request,
\* and changes no other warning and no recommendation or leadership report;
\* a failed recordWarning adds no row and returns the reason of the failure.
C20_RecordAddsOneRow == [][C20_RecordStep]_vars

C20_Witness ==
    /\ resp.op = "recordWarning"
    /\ resp.status = 200
    /\ Rows(warnings) >= 2
    /\ \E w \in DOMAIN warnings :
           /\ w.agent_email = resp.warningData.agentEmail
           /\ w.warning_type = resp.warningData.warningType
           /\ w.issue_date = resp.date
    /\ \E w \in DOMAIN warnings : w.agent_email # resp.warningData.agentEmail
    /\ Len(recommendations) >= 1
    /\ Rows(leadership_reports) >= 1

---------------------------------------------------------------------------
(* Claims on generating and saving, under SpecSave *)

\* the rows of the recommendations table stored for the result a caller got
StoredFrom(c) ==
    {i \in DOMAIN recommendations :
        /\ recommendations[i].agent_email = callers[c].recommendation.agentEmail
        /\ recommendations[i].case_type = callers[c].recommendation.case
        /\ recommendations[i].metric_type = callers[c].recommendation.metricType
        /\ recommendations[i].priority = callers[c].recommendation.priority
        /\ recommendations[i].generated_for_week_start =
               callers[c].recommendation.weekStartDate
        /\ recommendations[i].generated_for_week_end =
               callers[c].recommendation.weekEndDate
        /\ recommendations[i].is_actioned = FALSE}

\* two callers went through generate and save for the same agent, metric and
\* week, read the same active warnings and got the same case
SameTriggerSaved(c, d) ==
    /\ c # d
    /\ callers[c].pc = "saved"
    /\ callers[d].pc = "saved"
    /\ callers[c].agentEmail = callers[d].agentEmail
    /\ callers[c].metricType = callers[d].metricType
    /\ callers[c].week = callers[d].week
    /\ callers[c].rows = callers[d].rows
    /\ callers[c].recommendation.case = callers[d].recommendation.case

\* C21: two concurrent generate-and-save sequences for the same agent,
\* metric and week are not serialized: when both read the same active
\* warnings and got the same case, both results are stored, and the table
\* holds two rows for the one trigger.
C21_BothSequencesPersist ==
    \A c \in DOMAIN callers, d \in DOMAIN callers :
        SameTriggerSaved(c, d) => Cardinality(StoredFrom(c)) >= 2

\* C23: saveRecommendation on a result of generateRecommendation stores one
\* new row with the case, metric, priority and week range of the result and
\* the actioned flag false, for each of the cases A, B, C and First.
C23_SaveStoresResult ==
    \A c \in DOMAIN callers :
        callers[c].pc = "saved" =>
            /\ callers[c].stored
            /\ StoredFrom(c) # {}

---------------------------------------------------------------------------
(* Claims on the life of a warning, under SpecService *)

\* the row counts on the day given
CountsOn(w, day) ==
    w.status = "Active" /\ (w.expiration_date = NULL \/ ~(w.expiration_date < day))

C22_WarningsStep ==
    \A w \in DOMAIN warnings :
        /\ w \in DOMAIN warnings'
        /\ warnings'[w] >= warnings[w]
        /\ (CountsOn(w, today) /\ ~CountsOn(w, today')) =>
               (w.expiration_date # NULL /\ w.expiration_date < today')

\* C22: no operation of the service modifies or deletes a warning row: every
\* row of the table is in it afterwards, as often as before, and a warning
\* stops counting only because the date passes its expiration date.
C22_WarningsOnlyGrow == [][C22_WarningsStep]_vars

\* a warning of the table has expired while another was recorded after it,
\* and the warnings have been read since
C22_Witness ==
    /\ resp.op \in {"getActiveWarnings", "generate"}
    /\ \E w \in DOMAIN warnings :
           w.status = "Active" /\ w.expiration_date # NULL /\ w.expiration_date < today
    /\ \E w \in DOMAIN warnings : w.issue_date > 0
    /\ \E i \in DOMAIN recommendations : recommendations[i].is_actioned

---------------------------------------------------------------------------
(* Claims on the reading of leadership reports, under SpecCaseE *)

\* C24: the reports the leadership-reports read returns for a leader with
\* activeOnly = true are the reports evaluateCaseE counts as active for that
\* leader on that date: those with the active flag true and an expiration
\* that is null or not earlier than the date.
C24_ActiveOnlyIsCaseERule ==
    (resp.op = "leadershipReports" /\ resp.activeOnly /\ resp.leaderEmail \in Leaders) =>
        resp.rows = activeReports(leadership_reports, resp.date, resp.leaderEmail)

---------------------------------------------------------------------------
(* Claims on what counts as a leader's action, under SpecCaseD *)

\* the only record of the agent dated within 7 days of start is a Coaching
\* warning
OnlyCoachingNear(agentEmail, start) ==
    /\ \E w \in DOMAIN warnings :
           /\ w.agent_email = agentEmail
           /\ Near(w.issue_date, start)
           /\ w.warning_type = "Coaching"
    /\ \A w \in DOMAIN warnings :
           (w.agent_email = agentEmail /\ Near(w.issue_date, start)) =>
               w.warning_type = "Coaching"
    /\ \A a \in DOMAIN action_log :
           ~(a.agent_email = agentEmail /\ Near(a.action_date, start))

\* C25: Coaching does not count as a leader's action: when the period has
\* more than 2 underperforming weeks and the only record of the agent within
\* 7 days of the first underperforming week is a Coaching warning,
\* evaluateCaseD applies.
C25_CoachingIsNoAction ==
    (/\ resp.op = "caseD"
     /\ Cardinality(UnderAt(resp.weeksData)) > 2
     /\ OnlyCoachingNear(resp.agentEmail, FirstUnderStart(resp.weeksData))) =>
        (resp.result.applies /\ resp.result.case = "D")

\* the weekly rows in another order
Reordered(weeksData, p) == [i \in DOMAIN weeksData |-> weeksData[p[i]]]

\* C30: the outcome of evaluateCaseD does not depend on the order of the
\* weekly rows supplied: on the same tables, every reordering of the rows of
\* a call gives the same applies value.
C30_CaseDOrderIndependent ==
    resp.op = "caseD" =>
        \A p \in Permutations(DOMAIN resp.weeksData) :
            evaluateCaseD(warnings, action_log, resp.agentEmail, resp.leaderEmail,
                          Reordered(resp.weeksData, p)).applies = resp.result.applies

---------------------------------------------------------------------------
(* Claims on the order of the priorities, under SpecLadder and SpecFilter *)

\* the priorities, lowest first
Rank(priority) ==
    CASE priority = "Low" -> 0
      [] priority = "Medium" -> 1
      [] priority = "High" -> 2
      [] priority = "Critical" -> 3

\* the priority returned for the call's agent, metric and week on the table
\* W and the day given
PriorityOn(W, day) ==
    generateRecommendation(W, day, resp.agentEmail, resp.metricType,
                           resp.week.weekStartDate, resp.week.weekEndDate).priority

\* C26: the ladder is monotone in the warnings: with one more active
\* warning of any kind, Coaching, Verbal or Written, for the agent and
\* metric, the priority returned is at least the priority returned without
\* it, in the order Low < Medium < High < Critical.
C26_MoreWarningsNoLowerPriority ==
    Generated =>
        \A t \in WarningTypes :
            Rank(PriorityOn(OneMore(t), resp.date)) >= Rank(resp.result.priority)

C26_Witness ==
    /\ Generated
    /\ Verbals >= 2
    /\ Writtens = 1
    /\ resp.result.priority = "High"
    /\ PriorityOn(OneMore("Written"), resp.date) = "Critical"
    /\ PriorityOn(OneMore("Verbal"), resp.date) = "High"

\* C27: while no warning is recorded, the priority returned for an agent
\* and metric never rises as the evaluation date advances: on the same
\* rows, the priority returned on any later day is at most the priority
\* returned on the day of the call.
C27_PriorityFallsWithDate ==
    Generated =>
        \A d \in resp.date..(LastDay + 1) :
            Rank(PriorityOn(warnings, d)) <= Rank(resp.result.priority)

C27_Witness ==
    /\ Generated
    /\ resp.date < LastDay
    /\ resp.result.priority = "High"
    /\ PriorityOn(warnings, LastDay) = "Medium"
    /\ today = LastDay

---------------------------------------------------------------------------
(* Claims on what a recommendation depends on, under SpecLadder *)

\* C28: the recommendation for an agent and metric depends only on the
\* warnings of that agent and metric: with the warnings of other agents and
\* of the other metric removed, or with one more of them, the case and the
\* priority returned are the same.
C28_OnlyOwnWarningsMatter ==
    Generated =>
        /\ CaseWith(Where(warnings, OfCall)) = resp.result.case
        /\ PriorityOn(Where(warnings, OfCall), resp.date) = resp.result.priority
        /\ \A a \in Agents, m \in Metrics, t \in WarningTypes :
               (a # resp.agentEmail \/ m # resp.metricType) =>
                   /\ CaseWith(Insert(warnings, NewWarning(resp.date, a, m, t, NULL)))
                          = resp.result.case
                   /\ PriorityOn(Insert(warnings, NewWarning(resp.date, a, m, t, NULL)),
                                 resp.date) = resp.result.priority

C28_Witness ==
    /\ Generated
    /\ resp.result.case = "A"
    /\ Rows(Where(warnings, OfCall)) = 1
    /\ \E w \in DOMAIN warnings :
           /\ w.agent_email = resp.agentEmail
           /\ w.metric_type # resp.metricType
           /\ w.warning_type = "Written"
           /\ warnings[w] >= 2
    /\ \E w \in DOMAIN warnings :
           /\ w.agent_email # resp.agentEmail
           /\ w.metric_type = resp.metricType
           /\ w.warning_type = "Verbal"

---------------------------------------------------------------------------
(* Claims on the history of a recommendation, under SpecLadder *)

\* the number of warnings of a kind recorded so far for the agent and metric
\* of the last call: the table starts empty and recordWarning, its only
\* writer, adds one row for each call that completes
RecordedOf(warningType) ==
    LET Keep(w) == OfCall(w) /\ w.warning_type = warningType
    IN Rows(Where(warnings, Keep))

\* C29: starting from an empty warnings table with recordWarning as the only
\* write, generateRecommendation returns case C for an agent and metric only
\* after 2 or more Written warnings were recorded for them, case B only
\* after 2 or more Verbal warnings, and case A only after 1 or more Verbal
\* warnings.
C29_CaseOnlyAfterRecords ==
    Generated =>
        /\ resp.result.case = "C" => RecordedOf("Written") >= 2
        /\ resp.result.case = "B" => RecordedOf("Verbal") >= 2
        /\ resp.result.case = "A" => RecordedOf("Verbal") >= 1

C29_Witness ==
    /\ Generated
    /\ resp.result.case = "B"
    /\ RecordedOf("Verbal") = 2
    /\ RecordedOf("Written") = 1
    /\ RecordedOf("Coaching") = 1
    /\ Rows(warnings) = MaxWarnings

====
